---- MODULE Spec2Model ----
(***************************************************************************)
(* A model of dd-trace-py:                                                 *)
(*   ddtrace/internal/telemetry/metrics.py  the telemetry metric kinds     *)
(*   ddtrace/internal/uwsgi.py              check_uwsgi                    *)
(*   ddtrace/settings/http.py               HttpConfig                     *)
(*                                                                         *)
(* The specifications share the variables, and each leaves the variables   *)
(* of the others as they start:                                            *)
(*   Spec         one metric instance: constructor, add_point, to_dict     *)
(*   SpecHash     the same in a process with any str hashing               *)
(*   SpecThreads  threads inside CountMetric.add_point on one instance     *)
(*   SpecId       Metric.get_id under any str hashing                      *)
(*   SpecUwsgi    check_uwsgi in any process, and uwsgi.atexit at exit     *)
(*   SpecHttp     one HttpConfig: constructor, trace_headers, _reset,      *)
(*                header_is_traced                                         *)
(*                                                                         *)
(* Python values are represented as follows.                               *)
(*   str      a sequence of one-character strings, <<"R", "q">> is "Rq"    *)
(*   float    values passed to add_point are integers; a quotient is a     *)
(*            reduced fraction [num, den]                                  *)
(*   Optional a record with the flag isNone                                *)
(*   list     a mutable object: a reference (an index into heap) whose     *)
(*            contents heap holds, so that two names for one list see      *)
(*            each other's changes                                         *)
(*   tuple    an immutable value: a sequence, held inline                  *)
(***************************************************************************)
EXTENDS Integers, Sequences, FiniteSets, TLC

\* ------------------------------------------------------------------ bounds

\* add_point calls made on the one metric instance of a behaviour
MaxCalls == 3
\* threads that call add_point on one instance at the same time
NumThreads == 2

\* ----------------------------------------------------------------- strings

\* str.lower() on one character
lower_char(c) ==
  CASE c = "R" -> "r"
    [] c = "Q" -> "q"
    [] c = "T" -> "t"
    [] c = "E" -> "e"
    [] c = "P" -> "p"
    [] c = "V" -> "v"
    [] OTHER -> c

\* str.lower()
str_lower(s) == [i \in 1..Len(s) |-> lower_char(s[i])]

\* "{}:{}".format(k, v)
format_tag(k, v) == k \o <<":">> \o v

\* ----------------------------------------------------------------- numbers

RECURSIVE gcd(_, _)
gcd(a, b) == IF b = 0 THEN a ELSE gcd(b, a % b)

abs(a) == IF a < 0 THEN -a ELSE a

\* the fraction n/d in lowest terms with a positive denominator (d # 0)
Frac(n, d) ==
  LET g == gcd(abs(n), abs(d))
      s == IF d < 0 THEN -1 ELSE 1
  IN  [num |-> s * (n \div g), den |-> s * (d \div g)]

\* Optional[float]: None, or the number num/den
None == [isNone |-> TRUE, num |-> 0, den |-> 1]
Some(n, d) == [isNone |-> FALSE, num |-> n, den |-> d]

\* int(x) of a float: truncation toward zero
py_int(x) ==
  IF x.num >= 0 THEN x.num \div x.den ELSE -((-x.num) \div x.den)

\* a mutant of py_truth: "is not None" in place of the truth value
py_truth_is_not_none(x) == ~x.isNone

\* truth value of an Optional[float]: None and 0.0 are false
py_truth(x) == ~x.isNone /\ x.num # 0

\* count / interval, for an integer-valued count and a non-zero interval
py_truediv(count, x) == Frac(count * x.den, x.num)

\* 0.0
Zero == [num |-> 0, den |-> 1]

\* -------------------------------------------------------------- input sets

Names == {<<"R", "q">>, <<"r", "q">>}
Namespaces == {<<"T", "r">>, <<"a", "p">>}

\* MetricTagType: None, or a tuple of (key, value) pairs
NoTags == [isNone |-> TRUE, pairs |-> <<>>]
TagTuple(ps) == [isNone |-> FALSE, pairs |-> ps]
TagChoices == {NoTags, TagTuple(<< <<<<"E">>, <<"P">>>>, <<<<"k">>, <<"V">>>> >>)}

Intervals == {None, Some(0, 1), Some(2, 1), Some(5, 2)}
Values == {1, 2}

ConcreteClasses == {"CountMetric", "GaugeMetric", "RateMetric", "DistributionMetric"}
Classes == ConcreteClasses \cup {"Metric"}

\* ------------------------------------------------------------------- state

VARIABLES
  self,      \* the metric instance: its slots (cls = "None" before construction)
  heap,      \* the list objects: heap[r] is the contents of the list r
  now,       \* what time.time() returns
  payload,   \* the dict the last to_dict call returned (points by reference)
  err,       \* the exception the last operation raised, "none" if it returned
  lastOp,    \* the last operation
  repeated,  \* the last two operations were both to_dict
  args,      \* the arguments the constructor was called with
  calls,     \* the add_point calls made: <<value, clock value during the call>>
  uwsgi,     \* the uwsgi module of the process: whether it can be imported,
             \* the options set, numproc, worker_id() and its atexit attribute
  uwsgidecorators,  \* whether it can be imported, and the postfork hooks
  closures,  \* the _atexit closures created: what each has captured
  check,     \* the last check_uwsgi call: its arguments and how it ended
  exit_run,  \* the run of uwsgi.atexit when the process exits: what each
             \* callback does when called, the callables invoked in order,
             \* and the exception that came out of uwsgi.atexit()
  str_hash,  \* hash() of each str in this process (it varies with the hash seed)
  ident,     \* the last two get_id calls compared: arguments and keys
  threads,   \* the threads that call add_point on the one instance: where
             \* each is in CountMetric.add_point, and what it holds
  serialized,  \* whether the owner of the instance lets one thread at a
               \* time call add_point
  http,      \* the HttpConfig instance: _header_tags and the cache of
             \* _header_tag_name (exists = FALSE before construction)
  http_last, \* the last HttpConfig operation: its argument and what it
             \* returned
  answered_false  \* the header names header_is_traced has returned False for

metricVars == <<self, heap, now, payload, err, lastOp, repeated, args, calls>>
uwsgiVars == <<uwsgi, uwsgidecorators, closures, check, exit_run>>
idVars == <<str_hash, ident>>
threadVars == <<threads, serialized>>
httpVars == <<http, http_last, answered_false>>
vars == <<metricVars, uwsgiVars, idVars, threadVars, httpVars>>

\* the slots of an instance that does not exist yet
NoInstance ==
  [cls |-> "None", namespace |-> <<>>, name |-> <<>>, _tags |-> NoTags,
   is_common_to_all_tracers |-> FALSE, interval |-> None, _points |-> 0,
   _count |-> 0]

NoArgs ==
  [cls |-> "None", namespace |-> <<>>, name |-> <<>>, tags |-> NoTags,
   common |-> FALSE, interval |-> None]

NoPayload == [k \in {} |-> 0]

\* ----------------------------------------------------------------- Metric

\* the class attribute metric_type
metric_type_of(cls) ==
  CASE cls = "CountMetric" -> <<"c", "o", "u", "n", "t">>
    [] cls = "GaugeMetric" -> <<"g", "a", "u", "g", "e">>
    [] cls = "RateMetric" -> <<"r", "a", "t", "e">>
    [] cls = "DistributionMetric" -> <<"d", "i", "s", "t", "r", "i", "b", "u", "t", "i", "o", "n", "s">>
    [] OTHER -> <<>>

\* a mutant of abstractmethods: add_point not declared abstract
abstractmethods_none(cls) == {}

\* __abstractmethods__ of a class: add_point is abstract in Metric and
\* concrete in the four kinds
abstractmethods(cls) == IF cls = "Metric" THEN {"add_point"} ELSE {}

\* a mutant of Metric__init__: the name stored as given
Metric__init__verbatim(h, cls, namespace, name, tags, common, interval) ==
  [self |-> [cls |-> cls,
             name |-> name,
             is_common_to_all_tracers |-> common,
             interval |-> interval,
             namespace |-> namespace,
             _tags |-> tags,
             _count |-> 0,
             _points |-> Len(h) + 1],
   heap |-> Append(h, <<>>)]

\* Metric.__init__: the new instance and the heap holding its empty list
Metric__init__(h, cls, namespace, name, tags, common, interval) ==
  [self |-> [cls |-> cls,
             name |-> str_lower(name),
             is_common_to_all_tracers |-> common,
             interval |-> interval,
             namespace |-> namespace,
             _tags |-> tags,
             _count |-> 0,
             _points |-> Len(h) + 1],
   heap |-> Append(h, <<>>)]

\* the abstract Metric.add_point: its body is pass
Metric_add_point(s, h, t, value) == [self |-> s, heap |-> h, exc |-> "none"]

\* the tags entry of both payloads
tags_list(s) ==
  IF ~s._tags.isNone /\ Len(s._tags.pairs) > 0
  THEN [i \in 1..Len(s._tags.pairs) |->
          str_lower(format_tag(s._tags.pairs[i][1], s._tags.pairs[i][2]))]
  ELSE <<>>

\* a mutant of Metric_to_dict: the payload takes the points and the instance
\* starts a new empty list
Metric_to_dict_drain(s, h) ==
  [self |-> [s EXCEPT !._points = Len(h) + 1],
   heap |-> Append(h, <<>>),
   exc |-> "none",
   ret |-> [metric |-> s.name,
            type |-> metric_type_of(s.cls),
            common |-> s.is_common_to_all_tracers,
            points |-> s._points,
            tags |-> tags_list(s)]
           @@ (IF ~s.interval.isNone
               THEN "interval" :> py_int(s.interval)
               ELSE [k \in {} |-> 0])]

\* a mutant of Metric_to_dict: interval left out when it is false (0 too)
Metric_to_dict_truthy(s, h) ==
  LET data == [metric |-> s.name,
               type |-> metric_type_of(s.cls),
               common |-> s.is_common_to_all_tracers,
               points |-> s._points,
               tags |-> tags_list(s)]
  IN  [self |-> s, heap |-> h, exc |-> "none",
       ret |-> IF py_truth(s.interval)
               THEN data @@ ("interval" :> py_int(s.interval))
               ELSE data]

\* Metric.to_dict
Metric_to_dict(s, h) ==
  LET data == [metric |-> s.name,
               type |-> metric_type_of(s.cls),
               common |-> s.is_common_to_all_tracers,
               points |-> s._points,
               tags |-> tags_list(s)]
  IN  [self |-> s, heap |-> h, exc |-> "none",
       ret |-> IF ~s.interval.isNone
               THEN data @@ ("interval" :> py_int(s.interval))
               ELSE data]

\* a mutant of CountMetric_add_point: every call stamps the point again
CountMetric_add_point_restamp(s, h, t, value) ==
  IF Len(h[s._points]) > 0
  THEN LET inner == h[s._points][1]
       IN  [self |-> s,
            heap |-> [h EXCEPT ![inner] = <<t, @[2] + value>>],
            exc |-> "none"]
  ELSE [self |-> [s EXCEPT !._points = Len(h) + 2],
        heap |-> h \o << <<t, value>>, <<Len(h) + 1>> >>,
        exc |-> "none"]

\* CountMetric.add_point
CountMetric_add_point(s, h, t, value) ==
  IF Len(h[s._points]) > 0
  THEN LET inner == h[s._points][1]
       IN  [self |-> s,
            heap |-> [h EXCEPT ![inner] = <<@[1], @[2] + value>>],
            exc |-> "none"]
  ELSE [self |-> [s EXCEPT !._points = Len(h) + 2],
        heap |-> h \o << <<t, value>>, <<Len(h) + 1>> >>,
        exc |-> "none"]

\* a mutant of GaugeMetric_add_point: the new point is added to the old ones
GaugeMetric_add_point_keep(s, h, t, value) ==
  [self |-> [s EXCEPT !._points = Len(h) + 1],
   heap |-> Append(h, Append(h[s._points], <<t, value>>)),
   exc |-> "none"]

\* GaugeMetric.add_point
GaugeMetric_add_point(s, h, t, value) ==
  [self |-> [s EXCEPT !._points = Len(h) + 1],
   heap |-> Append(h, << <<t, value>> >>),
   exc |-> "none"]

\* a mutant of RateMetric_add_point: the rate of this call's value alone
RateMetric_add_point_last(s, h, t, value) ==
  LET count == s._count + value
      rate == IF py_truth(s.interval) THEN py_truediv(value, s.interval) ELSE Zero
  IN  [self |-> [s EXCEPT !._count = count, !._points = Len(h) + 1],
       heap |-> Append(h, << <<t, rate>> >>),
       exc |-> "none"]

\* a mutant of RateMetric_add_point: the new point is added to the old ones
RateMetric_add_point_append(s, h, t, value) ==
  LET count == s._count + value
      rate == IF py_truth(s.interval) THEN py_truediv(count, s.interval) ELSE Zero
  IN  [self |-> [s EXCEPT !._count = count, !._points = Len(h) + 1],
       heap |-> Append(h, Append(h[s._points], <<t, rate>>)),
       exc |-> "none"]

\* RateMetric.add_point: the running total is updated first; a division by
\* zero would raise before _points is assigned
RateMetric_add_point(s, h, t, value) ==
  LET count == s._count + value
      divides == py_truth(s.interval)
  IN  IF divides /\ s.interval.num = 0
      THEN [self |-> [s EXCEPT !._count = count], heap |-> h,
            exc |-> "ZeroDivisionError"]
      ELSE LET rate == IF divides THEN py_truediv(count, s.interval) ELSE Zero
           IN  [self |-> [s EXCEPT !._count = count, !._points = Len(h) + 1],
                heap |-> Append(h, << <<t, rate>> >>),
                exc |-> "none"]

\* a mutant of DistributionMetric_add_point: insert(0, value)
DistributionMetric_add_point_front(s, h, t, value) ==
  [self |-> s, heap |-> [h EXCEPT ![s._points] = <<value>> \o @],
   exc |-> "none"]

\* DistributionMetric.add_point
DistributionMetric_add_point(s, h, t, value) ==
  [self |-> s, heap |-> [h EXCEPT ![s._points] = Append(@, value)],
   exc |-> "none"]

\* DistributionMetric.to_dict
DistributionMetric_to_dict(s, h) ==
  [self |-> s, heap |-> h, exc |-> "none",
   ret |-> [metric |-> s.name, points |-> s._points, tags |-> tags_list(s)]]

\* method resolution: the add_point of the instance's class
add_point(s, h, t, value) ==
  CASE s.cls = "CountMetric" -> CountMetric_add_point(s, h, t, value)
    [] s.cls = "GaugeMetric" -> GaugeMetric_add_point(s, h, t, value)
    [] s.cls = "RateMetric" -> RateMetric_add_point(s, h, t, value)
    [] s.cls = "DistributionMetric" -> DistributionMetric_add_point(s, h, t, value)

\* method resolution: the to_dict of the instance's class
to_dict(s, h) ==
  IF s.cls = "DistributionMetric"
  THEN DistributionMetric_to_dict(s, h)
  ELSE Metric_to_dict(s, h)

\* the Python value of a points list: a count's list holds one inner list,
\* the other kinds' lists hold tuples or bare values
points_value(h, r, cls) ==
  IF cls = "CountMetric" THEN [i \in 1..Len(h[r]) |-> h[h[r][i]]] ELSE h[r]


\* ------------------------------------------------------------------- uwsgi

\* the most processes uwsgi is configured with
MaxProc == 2
\* check_uwsgi calls made in one process
MaxChecks == 2

\* the callables a caller passes
Callbacks == {"f", "g"}
OptionalCallbacks == Callbacks \cup {"None"}

Options == {"enable-threads", "lazy-apps", "master"}

\* what uwsgi.atexit can be: missing or None, a function that someone else
\* installed, or the _atexit closure number id
NoHandler == [kind |-> "None", id |-> 0]
OriginalHandler == [kind |-> "function", id |-> 0]
Closure(n) == [kind |-> "_atexit", id |-> n]

NoCheck ==
  [worker_callback |-> "None", atexit |-> "None", outcome |-> "none",
   message |-> "", effects |-> <<>>, n |-> 0]

\* what a call of a caller's atexit callback does: it returns, it raises an
\* exception of a class derived from Exception, or it raises one that is not
\* (SystemExit, KeyboardInterrupt)
Behaviours == {"returns", "Exception", "SystemExit"}

NoExitRun ==
  [ran |-> FALSE, behaviour |-> [cb \in Callbacks |-> "returns"],
   invoked |-> <<>>, exc |-> "none"]

\* no uwsgi in the process
UwsgiIdle ==
  /\ uwsgi = [importable |-> FALSE, opt |-> {}, numproc |-> 1, worker_id |-> 0,
              atexit |-> NoHandler]
  /\ uwsgidecorators = [importable |-> FALSE, postfork |-> <<>>]
  /\ closures = <<>>
  /\ check = NoCheck
  /\ exit_run = NoExitRun

\* a process: without uwsgi, or under uwsgi with any options, a number of
\* processes, in the master (worker_id() = 0) or in a worker
UwsgiInit ==
  /\ \/ uwsgi = [importable |-> FALSE, opt |-> {}, numproc |-> 1,
                 worker_id |-> 0, atexit |-> NoHandler]
     \/ \E opt \in SUBSET Options, numproc \in 1..MaxProc,
           handler \in {NoHandler, OriginalHandler} :
          \E worker_id \in 0..numproc :
            uwsgi = [importable |-> TRUE, opt |-> opt, numproc |-> numproc,
                     worker_id |-> worker_id, atexit |-> handler]
  /\ \E importable \in BOOLEAN :
       uwsgidecorators = [importable |-> importable, postfork |-> <<>>]
  /\ closures = <<>>
  /\ check = NoCheck
  /\ exit_run = NoExitRun

\* uwsgi.opt.get(option), as a truth value
opt_get(u, option) == option \in u.opt

\* a mutant of prefork_master: worker_id() not looked at
prefork_master_any_worker(u) ==
  u.numproc > 1 /\ ~opt_get(u, "lazy-apps")

\* the condition of line 39: prefork mode, the app loaded in the master, and
\* this is the master
prefork_master(u) ==
  u.numproc > 1 /\ ~opt_get(u, "lazy-apps") /\ u.worker_id = 0

\* how a call ends, and the state it leaves
Ended(u, d, c, outcome, message, effects) ==
  [uwsgi |-> u, uwsgidecorators |-> d, closures |-> c,
   outcome |-> outcome, message |-> message, effects |-> effects]

\* a mutant of check_uwsgi: the postfork hook is registered and uwsgi.atexit
\* is replaced before the master option is looked at
check_uwsgi_eager(u, d, c, worker_callback, atexit) ==
  IF ~u.importable
  THEN Ended(u, d, c, "return", "", <<>>)
  ELSE IF ~opt_get(u, "enable-threads")
  THEN Ended(u, d, c, "uWSGIConfigError",
             "enable-threads option must be set to true", <<>>)
  ELSE IF prefork_master(u)
  THEN IF worker_callback # "None" /\ ~d.importable
       THEN Ended(u, d, c, "uWSGIConfigError",
                  "Running under uwsgi but uwsgidecorators cannot be imported",
                  <<>>)
       ELSE LET d1 == IF worker_callback # "None"
                      THEN [d EXCEPT !.postfork = Append(@, worker_callback)]
                      ELSE d
                e1 == IF worker_callback # "None" THEN <<"postfork">> ELSE <<>>
                c1 == IF atexit # "None"
                      THEN Append(c, [atexit |-> atexit,
                                      original_atexit |-> u.atexit])
                      ELSE c
                u1 == IF atexit # "None"
                      THEN [u EXCEPT !.atexit = Closure(Len(c) + 1)]
                      ELSE u
                e2 == IF atexit # "None" THEN Append(e1, "atexit") ELSE e1
            IN  IF ~opt_get(u, "master")
                THEN Ended(u1, d1, c1, "uWSGIConfigError",
                           "master option must be enabled when multiple processes are used",
                           e2)
                ELSE Ended(u1, d1, c1, "uWSGIMasterProcess", "", Append(e2, "raise"))
  ELSE Ended(u, d, c, "return", "", <<>>)

\* check_uwsgi(worker_callback, atexit)
check_uwsgi(u, d, c, worker_callback, atexit) ==
  IF ~u.importable
  THEN Ended(u, d, c, "return", "", <<>>)
  ELSE IF ~opt_get(u, "enable-threads")
  THEN Ended(u, d, c, "uWSGIConfigError",
             "enable-threads option must be set to true", <<>>)
  ELSE IF prefork_master(u)
  THEN IF ~opt_get(u, "master")
       THEN Ended(u, d, c, "uWSGIConfigError",
                  "master option must be enabled when multiple processes are used",
                  <<>>)
       ELSE IF worker_callback # "None" /\ ~d.importable
       THEN Ended(u, d, c, "uWSGIConfigError",
                  "Running under uwsgi but uwsgidecorators cannot be imported",
                  <<>>)
       ELSE LET d1 == IF worker_callback # "None"
                      THEN [d EXCEPT !.postfork = Append(@, worker_callback)]
                      ELSE d
                e1 == IF worker_callback # "None" THEN <<"postfork">> ELSE <<>>
                c1 == IF atexit # "None"
                      THEN Append(c, [atexit |-> atexit,
                                      original_atexit |-> u.atexit])
                      ELSE c
                u1 == IF atexit # "None"
                      THEN [u EXCEPT !.atexit = Closure(Len(c) + 1)]
                      ELSE u
                e2 == IF atexit # "None" THEN Append(e1, "atexit") ELSE e1
            IN  Ended(u1, d1, c1, "uWSGIMasterProcess", "", Append(e2, "raise"))
  ELSE Ended(u, d, c, "return", "", <<>>)

\* a call of check_uwsgi
CheckUwsgi(worker_callback, atexit) ==
  /\ check.n < MaxChecks
  /\ ~exit_run.ran
  /\ LET r == check_uwsgi(uwsgi, uwsgidecorators, closures, worker_callback, atexit)
     IN  /\ uwsgi' = r.uwsgi
         /\ uwsgidecorators' = r.uwsgidecorators
         /\ closures' = r.closures
         /\ check' = [worker_callback |-> worker_callback, atexit |-> atexit,
                      outcome |-> r.outcome, message |-> r.message,
                      effects |-> r.effects, n |-> check.n + 1]
  /\ UNCHANGED exit_run
  /\ UNCHANGED <<metricVars, idVars, threadVars, httpVars>>

RECURSIVE _atexit_forgets(_, _, _)
\* a mutant of _atexit: original_atexit is called only when atexit() raised
\* nothing
_atexit_forgets(n, c, behaviour) ==
  LET atexit == c[n].atexit
      original_atexit == c[n].original_atexit
  IN  IF behaviour[atexit] # "returns"
      THEN [invoked |-> <<atexit>>,
            exc |-> IF behaviour[atexit] = "SystemExit" THEN "SystemExit" ELSE "none"]
      ELSE IF original_atexit.kind = "None"
      THEN [invoked |-> <<atexit>>, exc |-> "none"]
      ELSE IF original_atexit.kind = "function"
      THEN [invoked |-> <<atexit, "original">>, exc |-> "none"]
      ELSE LET r == _atexit_forgets(original_atexit.id, c, behaviour)
           IN  [invoked |-> <<atexit>> \o r.invoked, exc |-> r.exc]

RECURSIVE _atexit(_, _, _)
\* a call of the closure _atexit number n: atexit() in a try whose except
\* clause catches Exception, then original_atexit() unless it is None. What
\* is returned: the callables invoked, in order, and the exception that came
\* out. A function that someone else installed returns.
_atexit(n, c, behaviour) ==
  LET atexit == c[n].atexit
      original_atexit == c[n].original_atexit
  IN  IF behaviour[atexit] = "SystemExit"
      THEN [invoked |-> <<atexit>>, exc |-> "SystemExit"]
      ELSE IF original_atexit.kind = "None"
      THEN [invoked |-> <<atexit>>, exc |-> "none"]
      ELSE IF original_atexit.kind = "function"
      THEN [invoked |-> <<atexit, "original">>, exc |-> "none"]
      ELSE LET r == _atexit(original_atexit.id, c, behaviour)
           IN  [invoked |-> <<atexit>> \o r.invoked, exc |-> r.exc]

\* the process exits: uwsgi calls uwsgi.atexit, if there is one
RunAtexit(behaviour) ==
  /\ uwsgi.importable
  /\ uwsgi.atexit.kind # "None"
  /\ ~exit_run.ran
  /\ LET r == IF uwsgi.atexit.kind = "function"
              THEN [invoked |-> <<"original">>, exc |-> "none"]
              ELSE _atexit(uwsgi.atexit.id, closures, behaviour)
     IN  exit_run' = [ran |-> TRUE, behaviour |-> behaviour,
                      invoked |-> r.invoked, exc |-> r.exc]
  /\ UNCHANGED <<uwsgi, uwsgidecorators, closures, check>>
  /\ UNCHANGED <<metricVars, idVars, threadVars, httpVars>>


\* ---------------------------------------------------------------- identity

\* hash() returns one of HashSize values (2^64 in CPython)
HashSize == 3

CountType == metric_type_of("CountMetric")
GaugeType == metric_type_of("GaugeMetric")

\* the strings that get_id is called with
StrAtoms == {<<"r", "q">>, <<"T", "r">>, <<"E">>, <<"P">>, CountType, GaugeType}

\* two distinct tag pairs, ("E", "P") and ("P", "E")
PairEP == <<<<"E">>, <<"P">>>>
PairPE == <<<<"P">>, <<"E">>>>

IdTagChoices == {NoTags, TagTuple(<<PairEP, PairPE>>), TagTuple(<<PairPE, PairEP>>)}

IdInputs ==
  [name : {<<"r", "q">>}, namespace : {<<"T", "r">>}, tags : IdTagChoices,
   metric_type : {CountType, GaugeType}]

NoIdent ==
  [rel |-> "none", a |-> CHOOSE x \in IdInputs : TRUE,
   b |-> CHOOSE x \in IdInputs : TRUE, ka |-> 0, kb |-> 0]

\* a process whose str hashes are all 0, where get_id is not called
IdIdle ==
  /\ str_hash = [x \in StrAtoms |-> 0]
  /\ ident = NoIdent

\* a process: hash() of a str is fixed when the process starts and may be any
\* value for any str
IdInit ==
  /\ str_hash \in [StrAtoms -> 0..(HashSize - 1)]
  /\ ident = NoIdent

\* hash(s) of a str
hash_str(s) == str_hash[s]

RECURSIVE hash_mix(_, _)
\* the accumulator of hash(tuple) after the lanes (the items' hashes) have
\* been mixed in, first to last
hash_mix(acc, lanes) ==
  IF Len(lanes) = 0
  THEN acc
  ELSE hash_mix(((acc + lanes[1] * 7) * 5 + 1) % HashSize, Tail(lanes))

\* hash(t) of a tuple, from the hashes of its items in order and its length
hash_tuple(lanes) == (hash_mix(2, lanes) + Len(lanes)) % HashSize

\* hash(tags): None, or a tuple of (key, value) tuples of str
hash_tags(tags) ==
  IF tags.isNone
  THEN 1
  ELSE hash_tuple([i \in 1..Len(tags.pairs) |->
                     hash_tuple(<<hash_str(tags.pairs[i][1]),
                                  hash_str(tags.pairs[i][2])>>)])

\* Metric.get_id
get_id(name, namespace, tags, metric_type) ==
  hash_tuple(<<hash_str(name), hash_str(namespace), hash_tags(tags),
               hash_str(metric_type)>>)

\* Metric.__hash__
Metric__hash__(s) == get_id(s.name, s.namespace, s._tags, metric_type_of(s.cls))

\* the strings hashed when instances are hashed
HashAtoms == {<<"R", "q">>, <<"r", "q">>, <<"T", "r">>, CountType, GaugeType}

\* the tags of the hashed instances: None, or the one pair ("rq", "Tr")
HashTagChoices == {NoTags, TagTuple(<< <<<<"r", "q">>, <<"T", "r">>>> >>)}

\* a process where instances are hashed: any hash for any str
HashInit ==
  /\ str_hash \in [HashAtoms -> 0..(HashSize - 1)]
  /\ ident = NoIdent

\* the arguments b that stand in relation rel to the arguments a
Related(a, rel) ==
  CASE rel = "same" -> a
    [] rel = "metric_type" ->
         [a EXCEPT !.metric_type = IF @ = CountType THEN GaugeType ELSE CountType]
    [] rel = "tag order" ->
         [a EXCEPT !.tags = TagTuple(<<@.pairs[2], @.pairs[1]>>)]

\* get_id twice, on a and on arguments related to a
GetIds(a, rel) ==
  /\ rel = "tag order" => ~a.tags.isNone
  /\ LET b == Related(a, rel)
     IN  ident' = [rel |-> rel, a |-> a, b |-> b,
                   ka |-> get_id(a.name, a.namespace, a.tags, a.metric_type),
                   kb |-> get_id(b.name, b.namespace, b.tags, b.metric_type)]
  /\ UNCHANGED <<metricVars, uwsgiVars, str_hash, threadVars, httpVars>>

\* --------------------------------------------------------------- HttpConfig

\* Optional[str]
NoneStr == [isNone |-> TRUE, str |-> <<>>]
SomeStr(s) == [isNone |-> FALSE, str |-> s]

\* a dict is a function whose domain is the keys
EmptyDict == [k \in {} |-> <<>>]

\* d.get(k): the value, or None
dict_get(d, k) == IF k \in DOMAIN d THEN SomeStr(d[k]) ELSE NoneStr

\* a mutant of dict_setdefault: d[k] = v
dict_setitem(d, k, v) ==
  [x \in DOMAIN d \cup {k} |-> IF x = k THEN v ELSE d[x]]

\* d.setdefault(k, v), as a statement: d afterwards
dict_setdefault(d, k, v) ==
  IF k \in DOMAIN d
  THEN d
  ELSE [x \in DOMAIN d \cup {k} |-> IF x = k THEN v ELSE d[x]]

\* the header names asked for, and the tag names
HeaderNames == {<<"T", "e">>, <<"t", "e">>, <<"P">>}
DefaultTag == <<>>
CustomTag == <<"q">>

\* the header_tags argument of the constructor: None, an empty mapping, or
\* a mapping of "Te" to a tag name of the caller's
NoHeaderTags == [isNone |-> TRUE, map |-> EmptyDict]
HeaderTags(m) == [isNone |-> FALSE, map |-> m]
HeaderTagsChoices ==
  {NoHeaderTags, HeaderTags(EmptyDict),
   HeaderTags([k \in {<<"T", "e">>} |-> CustomTag])}

\* the whitelist argument of trace_headers: None, a str, or a list of str
WNone == [kind |-> "None", str |-> <<>>, items |-> <<>>]
WStr(s) == [kind |-> "str", str |-> s, items |-> <<>>]
WList(l) == [kind |-> "list", str |-> <<>>, items |-> l]
Whitelists ==
  {WNone, WStr(<<>>), WStr(<<"T", "e">>), WStr(<<"P">>), WList(<<>>),
   WList(<< <<>> >>), WList(<< <<"t", "e">>, <<>>, <<"P">> >>)}

NoHttpConfig ==
  [exists |-> FALSE, _header_tags |-> EmptyDict, trace_query_string |-> "None",
   cache |-> EmptyDict]

NoHttpOp ==
  [op |-> "none", header_name |-> <<>>, whitelist |-> WNone, ret |-> "None"]

\* no HttpConfig in the process
HttpIdle ==
  /\ http = NoHttpConfig
  /\ http_last = NoHttpOp
  /\ answered_false = {}

\* normalize_header_name: header names are compared without regard to letter
\* case
normalize_header_name(header_name) == str_lower(header_name)

\* a call of a cached method with the argument key, where value is what the
\* method returns for it: the cache afterwards, and the result
cachedmethod_call(cache, key, value) ==
  IF key \in DOMAIN cache
  THEN [cache |-> cache, ret |-> cache[key]]
  ELSE [cache |-> [x \in DOMAIN cache \cup {key} |->
                     IF x = key THEN value ELSE cache[x]],
        ret |-> value]

\* the invalidate() of a cached method
invalidate(s) == [s EXCEPT !.cache = EmptyDict]

\* HttpConfig.__init__
HttpConfig__init__(header_tags) ==
  LET m == header_tags.map
  IN  [exists |-> TRUE,
       _header_tags |->
         IF ~header_tags.isNone /\ DOMAIN m # {}
         THEN [n \in {normalize_header_name(k) : k \in DOMAIN m} |->
                 m[CHOOSE k \in DOMAIN m : normalize_header_name(k) = n]]
         ELSE EmptyDict,
       trace_query_string |-> "None",
       cache |-> EmptyDict]

\* HttpConfig._reset
_reset(s) == invalidate([s EXCEPT !._header_tags = EmptyDict])

\* the body of HttpConfig._header_tag_name
_header_tag_name_body(s, header_name) ==
  IF DOMAIN s._header_tags = {}
  THEN NoneStr
  ELSE dict_get(s._header_tags, normalize_header_name(header_name))

\* HttpConfig._header_tag_name, a cached method
_header_tag_name(s, header_name) ==
  LET r == cachedmethod_call(s.cache, header_name,
                             _header_tag_name_body(s, header_name))
  IN  [self |-> [s EXCEPT !.cache = r.cache], ret |-> r.ret]

\* HttpConfig.is_header_tracing_configured
is_header_tracing_configured(s) == Cardinality(DOMAIN s._header_tags) > 0

\* not whitelist
whitelist_is_falsy(whitelist) ==
  CASE whitelist.kind = "None" -> TRUE
    [] whitelist.kind = "str" -> Len(whitelist.str) = 0
    [] whitelist.kind = "list" -> Len(whitelist.items) = 0

RECURSIVE trace_headers_loop(_, _)
\* the for loop of trace_headers over the entries left: _header_tags
\* afterwards
trace_headers_loop(tags, entries) ==
  IF Len(entries) = 0
  THEN tags
  ELSE LET normalized_header_name == normalize_header_name(entries[1])
       IN  trace_headers_loop(
             IF Len(normalized_header_name) = 0
             THEN tags
             ELSE dict_setdefault(tags, normalized_header_name, DefaultTag),
             Tail(entries))

\* a mutant of trace_headers: self is returned for a falsy whitelist too
trace_headers_returns_self(s, whitelist) ==
  IF whitelist_is_falsy(whitelist)
  THEN [self |-> s, ret |-> "self"]
  ELSE LET entries == IF whitelist.kind = "str"
                      THEN <<whitelist.str>> ELSE whitelist.items
       IN  [self |-> invalidate([s EXCEPT !._header_tags =
                                   trace_headers_loop(@, entries)]),
            ret |-> "self"]

\* a mutant of trace_headers: no invalidate()
trace_headers_stale(s, whitelist) ==
  IF whitelist_is_falsy(whitelist)
  THEN [self |-> s, ret |-> "None"]
  ELSE LET entries == IF whitelist.kind = "str"
                      THEN <<whitelist.str>> ELSE whitelist.items
       IN  [self |-> [s EXCEPT !._header_tags = trace_headers_loop(@, entries)],
            ret |-> "self"]

\* HttpConfig.trace_headers
trace_headers(s, whitelist) ==
  IF whitelist_is_falsy(whitelist)
  THEN [self |-> s, ret |-> "None"]
  ELSE LET entries == IF whitelist.kind = "str"
                      THEN <<whitelist.str>> ELSE whitelist.items
       IN  [self |-> invalidate([s EXCEPT !._header_tags =
                                   trace_headers_loop(@, entries)]),
            ret |-> "self"]

\* HttpConfig.header_is_traced
header_is_traced(s, header_name) ==
  LET r == _header_tag_name(s, header_name)
  IN  [self |-> r.self, ret |-> ~r.ret.isNone]

\* HttpConfig(header_tags)
HttpConstruct(header_tags) ==
  /\ ~http.exists
  /\ http' = HttpConfig__init__(header_tags)
  /\ http_last' = [NoHttpOp EXCEPT !.op = "__init__"]
  /\ UNCHANGED answered_false
  /\ UNCHANGED <<metricVars, uwsgiVars, idVars, threadVars>>

\* config.trace_headers(whitelist)
TraceHeaders(whitelist) ==
  /\ http.exists
  /\ LET r == trace_headers(http, whitelist)
     IN  /\ http' = r.self
         /\ http_last' = [NoHttpOp EXCEPT !.op = "trace_headers",
                                          !.whitelist = whitelist,
                                          !.ret = r.ret]
  /\ UNCHANGED answered_false
  /\ UNCHANGED <<metricVars, uwsgiVars, idVars, threadVars>>

\* config._reset()
Reset ==
  /\ http.exists
  /\ http' = _reset(http)
  /\ http_last' = [NoHttpOp EXCEPT !.op = "_reset"]
  /\ UNCHANGED answered_false
  /\ UNCHANGED <<metricVars, uwsgiVars, idVars, threadVars>>

\* config.header_is_traced(header_name)
HeaderIsTraced(header_name) ==
  /\ http.exists
  /\ LET r == header_is_traced(http, header_name)
     IN  /\ http' = r.self
         /\ http_last' = [NoHttpOp EXCEPT !.op = "header_is_traced",
                                          !.header_name = header_name,
                                          !.ret = IF r.ret THEN "True" ELSE "False"]
         /\ answered_false' = IF r.ret THEN answered_false
                              ELSE answered_false \cup {header_name}
  /\ UNCHANGED <<metricVars, uwsgiVars, idVars, threadVars>>

\* ------------------------------------------------------------------ threads

\* CountMetric.add_point as the steps a thread takes, any of which another
\* thread can come between:
\*   test    if self._points:
\*   read    the load of self._points[0][1] in self._points[0][1] += value
\*   add     the addition of value
\*   write   the store into self._points[0][1]
\*   assign  self._points = [[time.time(), value]]

Thread(value) == [pc |-> "test", value |-> value, inner |-> 0, tmp |-> 0]

\* no thread calls add_point
ThreadsIdle ==
  /\ threads = [t \in 1..NumThreads |-> [Thread(0) EXCEPT !.pc = "done"]]
  /\ serialized = FALSE

\* if self._points:
CountMetric_add_point_test(s, h) == Len(h[s._points]) > 0

\* the load: the inner list self._points[0], and its item 1
CountMetric_add_point_read(s, h) ==
  [inner |-> h[s._points][1], tmp |-> h[h[s._points][1]][2]]

\* a mutant of CountMetric_add_point_add: the value read is dropped
CountMetric_add_point_add_drop(tmp, value) == value

\* the addition
CountMetric_add_point_add(tmp, value) == tmp + value

\* the store into item 1 of the inner list that was loaded
CountMetric_add_point_write(h, inner, sum) == [h EXCEPT ![inner] = <<@[1], sum>>]

\* self._points = [[time.time(), value]]
CountMetric_add_point_assign(s, h, t, value) ==
  [self |-> [s EXCEPT !._points = Len(h) + 2],
   heap |-> h \o << <<t, value>>, <<Len(h) + 1>> >>]

\* each thread is about to call add_point(value) with a value of its own, on
\* a CountMetric that has had no call yet or one call; the owner serializes
\* the calls or does not
ThreadsInit ==
  /\ threads \in [1..NumThreads -> {Thread(v) : v \in Values}]
  /\ serialized \in BOOLEAN
  /\ args = [cls |-> "CountMetric", namespace |-> <<"T", "r">>,
             name |-> <<"r", "q">>, tags |-> NoTags, common |-> TRUE,
             interval |-> None]
  /\ LET c == Metric__init__(<<>>, args.cls, args.namespace, args.name,
                             args.tags, args.common, args.interval)
     IN  \/ /\ self = c.self
            /\ heap = c.heap
            /\ now = 1
            /\ calls = <<>>
            /\ lastOp = "__init__"
         \/ \E value \in Values :
              LET r == CountMetric_add_point(c.self, c.heap, 1, value)
              IN  /\ self = r.self
                  /\ heap = r.heap
                  /\ now = 2
                  /\ calls = << <<value, 1>> >>
                  /\ lastOp = "add_point"
  /\ payload = NoPayload
  /\ err = "none"
  /\ repeated = FALSE

\* thread t enters add_point and tests the list; when the owner serializes
\* the calls, no other thread is inside add_point
Test(t) ==
  /\ threads[t].pc = "test"
  /\ serialized => \A u \in 1..NumThreads : threads[u].pc \in {"test", "done"}
  /\ threads' = [threads EXCEPT ![t].pc =
                   IF CountMetric_add_point_test(self, heap)
                   THEN "read" ELSE "assign"]
  /\ UNCHANGED <<metricVars, serialized>>
  /\ UNCHANGED <<uwsgiVars, idVars, httpVars>>

Read(t) ==
  /\ threads[t].pc = "read"
  /\ LET r == CountMetric_add_point_read(self, heap)
     IN  threads' = [threads EXCEPT ![t].pc = "add", ![t].inner = r.inner,
                                    ![t].tmp = r.tmp]
  /\ UNCHANGED <<metricVars, serialized>>
  /\ UNCHANGED <<uwsgiVars, idVars, httpVars>>

Add(t) ==
  /\ threads[t].pc = "add"
  /\ threads' = [threads EXCEPT ![t].pc = "write",
                   ![t].tmp = CountMetric_add_point_add(@, threads[t].value)]
  /\ UNCHANGED <<metricVars, serialized>>
  /\ UNCHANGED <<uwsgiVars, idVars, httpVars>>

WriteBack(t) ==
  /\ threads[t].pc = "write"
  /\ heap' = CountMetric_add_point_write(heap, threads[t].inner, threads[t].tmp)
  /\ threads' = [threads EXCEPT ![t].pc = "done"]
  /\ UNCHANGED <<self, now, payload, err, lastOp, repeated, args, calls>>
  /\ UNCHANGED serialized
  /\ UNCHANGED <<uwsgiVars, idVars, httpVars>>

Assign(t) ==
  /\ threads[t].pc = "assign"
  /\ LET r == CountMetric_add_point_assign(self, heap, now, threads[t].value)
     IN  /\ self' = r.self
         /\ heap' = r.heap
  /\ now' = now + 1
  /\ threads' = [threads EXCEPT ![t].pc = "done"]
  /\ UNCHANGED <<payload, err, lastOp, repeated, args, calls>>
  /\ UNCHANGED serialized
  /\ UNCHANGED <<uwsgiVars, idVars, httpVars>>

\* ------------------------------------------------------------ metric steps

MetricsInit ==
  /\ self = NoInstance
  /\ heap = <<>>
  /\ now = 1
  /\ payload = NoPayload
  /\ err = "none"
  /\ lastOp = "none"
  /\ repeated = FALSE
  /\ args = NoArgs
  /\ calls = <<>>

\* cls(namespace, name, tags, common, interval): a class with abstract
\* methods cannot be instantiated
Construct(cls, namespace, name, tags, common, interval) ==
  /\ args.cls = "None"
  /\ args' = [cls |-> cls, namespace |-> namespace, name |-> name,
              tags |-> tags, common |-> common, interval |-> interval]
  /\ IF abstractmethods(cls) # {}
     THEN /\ err' = "TypeError"
          /\ UNCHANGED <<self, heap>>
     ELSE LET r == Metric__init__(heap, cls, namespace, name, tags, common, interval)
          IN  /\ self' = r.self
              /\ heap' = r.heap
              /\ err' = "none"
  /\ lastOp' = "__init__"
  /\ repeated' = FALSE
  /\ UNCHANGED <<now, payload, calls>>
  /\ UNCHANGED <<uwsgiVars, idVars, threadVars, httpVars>>

\* self.add_point(value); the clock moves on between calls
AddPoint(value) ==
  /\ self.cls \in ConcreteClasses
  /\ Len(calls) < MaxCalls
  /\ LET r == add_point(self, heap, now, value)
     IN  /\ self' = r.self
         /\ heap' = r.heap
         /\ err' = r.exc
  /\ now' = now + 1
  /\ calls' = Append(calls, <<value, now>>)
  /\ lastOp' = "add_point"
  /\ repeated' = FALSE
  /\ UNCHANGED <<payload, args>>
  /\ UNCHANGED <<uwsgiVars, idVars, threadVars, httpVars>>

\* Metric.add_point(self, value): the abstract method's own body, which a
\* subclass reaches through super()
BaseAddPoint(value) ==
  /\ self.cls \in ConcreteClasses
  /\ LET r == Metric_add_point(self, heap, now, value)
     IN  /\ self' = r.self
         /\ heap' = r.heap
         /\ err' = r.exc
  /\ lastOp' = "Metric.add_point"
  /\ repeated' = FALSE
  /\ UNCHANGED <<now, payload, args, calls>>
  /\ UNCHANGED <<uwsgiVars, idVars, threadVars, httpVars>>

\* self.to_dict()
ToDict ==
  /\ self.cls \in ConcreteClasses
  /\ LET r == to_dict(self, heap)
     IN  /\ self' = r.self
         /\ heap' = r.heap
         /\ payload' = r.ret
         /\ err' = r.exc
  /\ lastOp' = "to_dict"
  /\ repeated' = (lastOp = "to_dict")
  /\ UNCHANGED <<now, args, calls>>
  /\ UNCHANGED <<uwsgiVars, idVars, threadVars, httpVars>>

Init == MetricsInit /\ UwsgiIdle /\ IdIdle /\ ThreadsIdle /\ HttpIdle

Next ==
  \/ \E cls \in Classes, namespace \in Namespaces, name \in Names,
        tags \in TagChoices, common \in BOOLEAN, interval \in Intervals :
       Construct(cls, namespace, name, tags, common, interval)
  \/ \E value \in Values : AddPoint(value)
  \/ \E value \in Values : BaseAddPoint(value)
  \/ ToDict

Spec == Init /\ [][Next]_vars

\* the process-mode check alone, in any process
InitUwsgi == MetricsInit /\ UwsgiInit /\ IdIdle /\ ThreadsIdle /\ HttpIdle

NextUwsgi ==
  \/ \E worker_callback \in OptionalCallbacks, atexit \in OptionalCallbacks :
       CheckUwsgi(worker_callback, atexit)
  \/ \E behaviour \in [Callbacks -> Behaviours] : RunAtexit(behaviour)

SpecUwsgi == InitUwsgi /\ [][NextUwsgi]_vars

\* get_id alone, in any process
\* instances are constructed, fed and serialised in a process with any str
\* hashes
InitHash == MetricsInit /\ UwsgiIdle /\ HashInit /\ ThreadsIdle /\ HttpIdle

NextHash ==
  \/ \E cls \in {"CountMetric", "GaugeMetric"}, name \in Names,
        tags \in HashTagChoices :
       Construct(cls, <<"T", "r">>, name, tags, TRUE, None)
  \/ AddPoint(1)
  \/ ToDict

SpecHash == InitHash /\ [][NextHash]_vars

\* threads call add_point on one CountMetric
InitThreads == ThreadsInit /\ UwsgiIdle /\ IdIdle /\ HttpIdle

NextThreads ==
  \E t \in 1..NumThreads :
    \/ Test(t)
    \/ Read(t)
    \/ Add(t)
    \/ WriteBack(t)
    \/ Assign(t)

SpecThreads == InitThreads /\ [][NextThreads]_vars

\* one HttpConfig: constructed, then any of its operations in any order
InitHttp == MetricsInit /\ UwsgiIdle /\ IdIdle /\ ThreadsIdle /\ HttpIdle

NextHttp ==
  \/ \E header_tags \in HeaderTagsChoices : HttpConstruct(header_tags)
  \/ \E whitelist \in Whitelists : TraceHeaders(whitelist)
  \/ Reset
  \/ \E header_name \in HeaderNames : HeaderIsTraced(header_name)

SpecHttp == InitHttp /\ [][NextHttp]_vars

InitId == MetricsInit /\ UwsgiIdle /\ IdInit /\ ThreadsIdle /\ HttpIdle

NextId ==
  \E a \in IdInputs, rel \in {"same", "metric_type", "tag order"} : GetIds(a, rel)

SpecId == InitId /\ [][NextId]_vars

\* ---------------------------------------------------------- metric claims

RECURSIVE SumValues(_)
\* v1 + ... + vn of the add_point calls made
SumValues(cs) == IF Len(cs) = 0 THEN 0 ELSE cs[1][1] + SumValues(Tail(cs))

\* what self._points holds, as a Python value
Points == points_value(heap, self._points, self.cls)

\* the last payload with its points list read through the reference
PayloadValue == [payload EXCEPT !["points"] = points_value(heap, @, self.cls)]

\* C1: a CountMetric that has had n >= 1 add_point calls (to_dict calls in
\* between or not) holds exactly one point, whose value is the sum of the
\* values of all the calls and whose timestamp is the clock value of the
\* first call, in every state after that call.
C1_CountAccumulates ==
  (self.cls = "CountMetric" /\ Len(calls) >= 1)
    => Points = << <<calls[1][2], SumValues(calls)>> >>

\* three add_point calls with different values on a count, a to_dict between
C1_Witness ==
  /\ self.cls = "CountMetric"
  /\ Len(calls) = 3
  /\ calls[1][1] # calls[2][1]
  /\ calls[3][2] > calls[1][2]
  /\ lastOp = "add_point"
  /\ payload # NoPayload

\* C2: a GaugeMetric that has had n >= 1 add_point calls holds a one-entry
\* list: the value of the last call with the clock value of the last call.
C2_GaugeOverwrites ==
  (self.cls = "GaugeMetric" /\ Len(calls) >= 1)
    => Points = << <<calls[Len(calls)][2], calls[Len(calls)][1]>> >>

\* a gauge after two calls with different values
C2_Witness ==
  /\ self.cls = "GaugeMetric"
  /\ Len(calls) >= 2
  /\ calls[Len(calls)][1] # calls[1][1]
  /\ lastOp = "add_point"

\* C3: a RateMetric's running total _count is the sum T of the values of
\* all add_point calls since construction, in every state (no add_point or
\* to_dict resets it), and after the first call the one stored point has the
\* value T / I when the interval I is set and not zero (stated as
\* value * I = T) and 0.0 when the interval is None or 0.
C3_RateDerivation ==
  self.cls = "RateMetric" =>
    /\ self._count = SumValues(calls)
    /\ err = "none"
    /\ Len(calls) >= 1 =>
         /\ Len(Points) = 1
         /\ LET rate == Points[1][2]
                I == args.interval
            IN  IF I.isNone \/ I.num = 0
                THEN rate = Zero
                ELSE /\ rate.den > 0
                     /\ rate.num * I.num = SumValues(calls) * I.den * rate.den

\* a rate with interval 2.5 after two calls and a to_dict
C3_Witness ==
  /\ self.cls = "RateMetric"
  /\ args.interval = Some(5, 2)
  /\ Len(calls) >= 2
  /\ lastOp = "to_dict"

\* a rate with interval 0 and a positive total
C3_WitnessZeroInterval ==
  /\ self.cls = "RateMetric"
  /\ args.interval = Some(0, 1)
  /\ SumValues(calls) > 0

\* C4: a DistributionMetric's list holds, after n add_point calls, exactly
\* the n bare values in call order, and every step either leaves the list as
\* it is or extends it by one element at the end.
C4_DistributionAppends ==
  /\ [](self.cls = "DistributionMetric" =>
          Points = [i \in 1..Len(calls) |-> calls[i][1]])
  /\ [][self.cls = "DistributionMetric" =>
          \/ Points' = Points
          \/ \E v \in Values : Points' = Append(Points, v)]_vars

\* a distribution after two calls with different values
C4_Witness ==
  /\ self.cls = "DistributionMetric"
  /\ Len(calls) >= 2
  /\ calls[1][1] # calls[2][1]

\* C5: in every state of a constructed metric, to_dict returns exactly the
\* keys metric, points, tags for a distribution, and for the other three
\* kinds the keys metric, type, common, points, tags and, if and only if the
\* interval given to the constructor is not None, interval.
C5_PayloadKeys ==
  self.cls \in ConcreteClasses =>
    LET keys == DOMAIN to_dict(self, heap).ret
    IN  /\ IF self.cls = "DistributionMetric"
           THEN keys = {"metric", "points", "tags"}
           ELSE /\ {"metric", "type", "common", "points", "tags"} \subseteq keys
                /\ keys \subseteq {"metric", "type", "common", "points", "tags", "interval"}
                /\ "interval" \in keys <=> ~args.interval.isNone
        /\ lastOp = "to_dict" => DOMAIN payload = keys

\* a distribution constructed with an interval, serialized
C5_Witness ==
  /\ self.cls = "DistributionMetric"
  /\ ~args.interval.isNone
  /\ lastOp = "to_dict"

\* a gauge constructed with interval 0, serialized
C5_WitnessZeroInterval ==
  /\ self.cls = "GaugeMetric"
  /\ args.interval = Some(0, 1)
  /\ lastOp = "to_dict"
  /\ "interval" \in DOMAIN payload

\* C6: a to_dict step changes no slot of the instance and no list, and a
\* to_dict that directly follows a to_dict returns an equal payload.
C6_ToDictReadOnly ==
  [][lastOp' = "to_dict" =>
       /\ self' = self
       /\ heap' = heap
       /\ lastOp = "to_dict" => PayloadValue' = PayloadValue]_vars

\* two to_dict calls in a row on a metric that holds points
C6_Witness ==
  /\ repeated
  /\ Len(calls) >= 1
  /\ Len(Points) >= 1

C8_WitnessBaseAddPoint ==
  /\ lastOp = "Metric.add_point"
  /\ Len(calls) >= 1

Upper == {"R", "Q", "T", "E", "P", "V"}

\* C9: the stored name and the payload's metric are the lowercased name given
\* to the constructor, whatever its casing, in every state after the
\* construction, and the namespace is stored as given.
C9_NameLowercased ==
  self.cls \in ConcreteClasses =>
    /\ Len(self.name) = Len(args.name)
    /\ \A i \in 1..Len(self.name) :
         /\ self.name[i] \notin Upper
         /\ self.name[i] = lower_char(args.name[i])
    /\ to_dict(self, heap).ret.metric = self.name
    /\ payload # NoPayload => payload.metric = self.name
    /\ self.namespace = args.namespace

\* a metric named "Rq" in namespace "Tr" after an add_point and a to_dict
C9_Witness ==
  /\ self.cls \in ConcreteClasses
  /\ args.name = <<"R", "q">>
  /\ args.namespace = <<"T", "r">>
  /\ Len(calls) >= 1
  /\ lastOp = "to_dict"
  /\ payload.metric = <<"r", "q">>

\* C17: a payload to_dict has returned is a snapshot, for all four kinds: an
\* add_point call made after it leaves the points of that payload as they
\* were.
C17_PayloadIsSnapshot ==
  [][(payload # NoPayload /\ lastOp' = "add_point")
       => points_value(heap', payload.points, self.cls)
            = points_value(heap, payload.points, self.cls)]_vars

\* C13: a CountMetric's and a GaugeMetric's list never holds more than one
\* entry; a RateMetric's list is empty before the first add_point and holds
\* exactly one entry in every state after it: the clock value of the last
\* call and the rate of the running total _count as it is now.
C13_Cardinality ==
  /\ self.cls \in {"CountMetric", "GaugeMetric"} => Len(Points) <= 1
  /\ self.cls = "RateMetric" =>
       IF Len(calls) = 0
       THEN Len(Points) = 0
       ELSE /\ Len(Points) = 1
            /\ Points[1][1] = calls[Len(calls)][2]
            /\ LET rate == Points[1][2]
                   I == self.interval
               IN  IF I.isNone \/ I.num = 0
                   THEN rate = Zero
                   ELSE rate.num * I.num = self._count * I.den * rate.den

\* a rate with a non-zero interval after three calls
C13_Witness ==
  /\ self.cls = "RateMetric"
  /\ Len(calls) = 3
  /\ self.interval = Some(2, 1)
  /\ lastOp = "add_point"

\* a count after two calls, and a gauge after two calls
C13_WitnessCount == self.cls = "CountMetric" /\ Len(calls) >= 2
C13_WitnessGauge == self.cls = "GaugeMetric" /\ Len(calls) >= 2

\* ----------------------------------------------------------- uwsgi claims

\* C10: a check_uwsgi call ends in one of three ways, decided in this order:
\* it returns when uwsgi cannot be imported, or when enable-threads is set
\* and the process is not (numproc > 1, lazy-apps unset, worker_id() = 0);
\* otherwise it raises uWSGIConfigError when enable-threads is unset, or
\* master is unset, or a worker_callback is given and uwsgidecorators cannot
\* be imported; otherwise (numproc > 1, lazy-apps unset, worker_id() = 0,
\* master set) it raises uWSGIMasterProcess.
C10_Outcomes ==
  check.n > 0 =>
    LET set(o) == o \in uwsgi.opt
        onMasterPath == /\ uwsgi.numproc > 1
                        /\ ~set("lazy-apps")
                        /\ uwsgi.worker_id = 0
    IN  /\ check.outcome \in {"return", "uWSGIConfigError", "uWSGIMasterProcess"}
        /\ check.outcome =
             IF ~uwsgi.importable \/ (set("enable-threads") /\ ~onMasterPath)
             THEN "return"
             ELSE IF \/ ~set("enable-threads")
                     \/ ~set("master")
                     \/ (check.worker_callback # "None" /\ ~uwsgidecorators.importable)
             THEN "uWSGIConfigError"
             ELSE "uWSGIMasterProcess"
        /\ check.outcome = "uWSGIMasterProcess" =>
             (onMasterPath /\ set("master") /\ set("enable-threads"))

\* a worker_callback given in the master, uwsgidecorators not importable
C10_Witness ==
  /\ check.n > 0
  /\ check.outcome = "uWSGIConfigError"
  /\ check.worker_callback # "None"
  /\ "enable-threads" \in uwsgi.opt
  /\ "master" \in uwsgi.opt

\* the master process signal
C10_WitnessMaster == check.outcome = "uWSGIMasterProcess"

\* a worker of a prefork uwsgi returns
C10_WitnessWorker ==
  /\ check.outcome = "return"
  /\ uwsgi.importable
  /\ uwsgi.numproc > 1
  /\ "lazy-apps" \notin uwsgi.opt
  /\ uwsgi.worker_id > 0

\* C15: a check_uwsgi call that returns or raises uWSGIConfigError leaves
\* the postfork hooks, uwsgi.atexit and the closures as they were; a call
\* that raises uWSGIMasterProcess has registered worker_callback as one more
\* postfork hook exactly when one was given, and has replaced uwsgi.atexit by
\* a new closure exactly when an atexit was given, in the order postfork
\* registration, atexit replacement, raise.
C15_EffectsOnMasterPath ==
  [][check'.n = check.n + 1 =>
       IF check'.outcome # "uWSGIMasterProcess"
       THEN /\ check'.outcome \in {"return", "uWSGIConfigError"}
            /\ uwsgidecorators' = uwsgidecorators
            /\ uwsgi' = uwsgi
            /\ closures' = closures
            /\ check'.effects = <<>>
       ELSE /\ uwsgidecorators'.postfork =
                 IF check'.worker_callback # "None"
                 THEN Append(uwsgidecorators.postfork, check'.worker_callback)
                 ELSE uwsgidecorators.postfork
            /\ IF check'.atexit # "None"
               THEN /\ uwsgi'.atexit = Closure(Len(closures'))
                    /\ uwsgi'.atexit # uwsgi.atexit
                    /\ closures' = Append(closures,
                                          [atexit |-> check'.atexit,
                                           original_atexit |-> uwsgi.atexit])
               ELSE uwsgi'.atexit = uwsgi.atexit /\ closures' = closures
            /\ check'.effects =
                 SelectSeq(<<"postfork", "atexit", "raise">>,
                           LAMBDA x : \/ x = "raise"
                                      \/ x = "postfork" /\ check'.worker_callback # "None"
                                      \/ x = "atexit" /\ check'.atexit # "None")]_vars

\* a master-path call with both callbacks
C15_Witness ==
  /\ check.outcome = "uWSGIMasterProcess"
  /\ check.effects = <<"postfork", "atexit", "raise">>
  /\ Len(uwsgidecorators.postfork) >= 1
  /\ uwsgi.atexit.kind = "_atexit"

\* a call with both callbacks on the master path that raises
\* uWSGIConfigError: the master option is not set
C15_WitnessConfigError ==
  /\ check.outcome = "uWSGIConfigError"
  /\ check.worker_callback # "None"
  /\ check.atexit # "None"
  /\ uwsgi.importable
  /\ "enable-threads" \in uwsgi.opt
  /\ prefork_master(uwsgi)
  /\ uwsgidecorators.postfork = <<>>

\* --------------------------------------------------------- thread claims

RECURSIVE SumThreads(_)
\* the values of the threads 1..n
SumThreads(n) == IF n = 0 THEN 0 ELSE threads[n].value + SumThreads(n - 1)

\* all the values submitted: before the threads, and by the threads
Submitted == SumValues(calls) + SumThreads(NumThreads)

AllDone == \A t \in 1..NumThreads : threads[t].pc = "done"

\* C14: when every thread's add_point call has returned, the list holds one
\* point; its value is the sum of all the values submitted when the owner
\* serialized the calls, and never more than that when not (an update can be
\* lost, as in the witness, none is counted twice).
C14_SerializedLosesNone ==
  AllDone =>
    /\ Len(Points) = 1
    /\ Points[1][2] <= Submitted
    /\ serialized => Points[1][2] = Submitted

\* unsynchronized calls have returned and the stored value is not the sum:
\* an update is lost
C14_Witness ==
  /\ AllDone
  /\ ~serialized
  /\ Points[1][2] # Submitted

\* serialized calls have returned, after a call made before
C14_WitnessSerialized ==
  /\ AllDone
  /\ serialized
  /\ Len(calls) = 1

\* an update lost by two threads that both loaded the stored value before
\* either stored
C14_WitnessReadRead ==
  /\ AllDone
  /\ ~serialized
  /\ Len(calls) = 1
  /\ Points[1][2] # Submitted

\* the atexit callbacks given in the master-path calls, last call first
Registered == [i \in 1..Len(closures) |-> closures[Len(closures) + 1 - i].atexit]

\* the handler that was installed before the first of these calls, if any
OriginalInvoked ==
  IF closures[1].original_atexit.kind = "function" THEN <<"original">> ELSE <<>>

\* C16: when the installed uwsgi.atexit runs after k >= 1 master-path calls
\* with atexit callbacks a1..ak, then ak, ..., a1 and then the handler
\* installed before (if any) are invoked, each exactly once, whatever
\* exception a callback raises, and no exception comes out.
C16_ChainNeverDrops ==
  (exit_run.ran /\ Len(closures) >= 1) =>
    /\ exit_run.invoked = Registered \o OriginalInvoked
    /\ exit_run.exc = "none"

\* C16, amended: the same when every exception a callback raises is of a
\* class derived from Exception; when a callback raises one that is not
\* (SystemExit, KeyboardInterrupt), the callbacks ak, ... down to the first
\* such callback have been invoked once each, the exception comes out of
\* uwsgi.atexit(), and the remaining callbacks and the handler installed
\* before are not invoked.
C16_ChainUnlessBaseException ==
  (exit_run.ran /\ Len(closures) >= 1) =>
    LET stops == {i \in 1..Len(closures) :
                    exit_run.behaviour[Registered[i]] = "SystemExit"}
    IN  IF stops = {}
        THEN /\ exit_run.invoked = Registered \o OriginalInvoked
             /\ exit_run.exc = "none"
        ELSE LET j == CHOOSE i \in stops : \A i2 \in stops : i <= i2
             IN  /\ exit_run.invoked = SubSeq(Registered, 1, j)
                 /\ exit_run.exc = "SystemExit"

\* two callbacks chained in front of a handler installed before; the last
\* one registered raises an Exception, the other returns
C16_Witness ==
  /\ exit_run.ran
  /\ Len(closures) = 2
  /\ closures[1].original_atexit.kind = "function"
  /\ closures[1].atexit # closures[2].atexit
  /\ exit_run.behaviour[closures[2].atexit] = "Exception"
  /\ exit_run.behaviour[closures[1].atexit] = "returns"
  /\ Len(exit_run.invoked) = 3

\* the last callback registered raises SystemExit
C16_WitnessSystemExit ==
  /\ exit_run.ran
  /\ Len(closures) = 2
  /\ closures[1].atexit # closures[2].atexit
  /\ exit_run.behaviour[closures[2].atexit] = "SystemExit"
  /\ exit_run.exc = "SystemExit"

\* -------------------------------------------------------- identity claims

\* C7: get_id gives equal keys for equal arguments, different keys for
\* arguments that differ only in metric_type, and different keys for
\* arguments that differ only in the order of two distinct tag pairs.
C7_IdDistinguishes ==
  /\ ident.rel = "same" => ident.ka = ident.kb
  /\ ident.rel = "metric_type" => ident.ka # ident.kb
  /\ ident.rel = "tag order" => ident.ka # ident.kb
\* C19: the hash of an instance is get_id of the lowercased name, the
\* namespace, the tags and the metric type it was constructed with, in every
\* state from its construction on, whatever add_point and to_dict calls were
\* made; an instance constructed with a name that differs only in letter case
\* (and is otherwise the same) has the same hash.
C19_HashConstant ==
  self.cls \in ConcreteClasses =>
    /\ Metric__hash__(self)
         = get_id(str_lower(args.name), args.namespace, args.tags,
                  metric_type_of(args.cls))
    /\ \A name \in Names :
         str_lower(name) = str_lower(args.name) =>
           Metric__hash__(Metric__init__(heap, args.cls, args.namespace, name,
                                         args.tags, args.common,
                                         args.interval).self)
             = Metric__hash__(self)

\* an instance constructed with an upper case letter in its name, after
\* add_point and to_dict calls, in a process where get_id of the name as it
\* was given is another key than the hash
C19_Witness ==
  /\ self.cls \in ConcreteClasses
  /\ args.name = <<"R", "q">>
  /\ Len(calls) >= 2
  /\ lastOp = "to_dict"
  /\ get_id(args.name, args.namespace, args.tags, metric_type_of(args.cls))
       # Metric__hash__(self)
\* ----------------------------------------------------- HttpConfig claims

\* the header names that are configured
Configured == DOMAIN http._header_tags

\* C11: in every state of an HttpConfig, whatever was asked and cached
\* before, header_is_traced(h) returns True exactly when the normalized h is a
\* key of _header_tags; the answer just returned is that of the state it left;
\* two names that differ only in letter case get the same answer.
C11_CacheNeverStale ==
  http.exists =>
    /\ \A h \in HeaderNames :
         header_is_traced(http, h).ret = (normalize_header_name(h) \in Configured)
    /\ http_last.op = "header_is_traced" =>
         (http_last.ret = "True")
           = (normalize_header_name(http_last.header_name) \in Configured)
    /\ \A h1, h2 \in HeaderNames :
         str_lower(h1) = str_lower(h2) =>
           header_is_traced(http, h1).ret = header_is_traced(http, h2).ret

\* a header that was answered False, registered later, and is answered True
C11_Witness ==
  /\ http_last.op = "header_is_traced"
  /\ http_last.ret = "True"
  /\ http_last.header_name \in answered_false

\* the whitelists that are empty or falsy
FalsyWhitelists == {WNone, WStr(<<>>), WList(<<>>)}

C12_WitnessNonEmpty ==
  /\ http_last.op = "trace_headers"
  /\ http_last.whitelist = WList(<< <<>> >>)
  /\ http_last.ret = "self"
  /\ Configured = {}

\* the entries of a whitelist
Entries(w) ==
  IF w.kind = "str" THEN {w.str}
  ELSE {w.items[i] : i \in 1..Len(w.items)}

\* C18: a trace_headers call keeps every header that was configured, with
\* its tag name; what it adds are the lowercased non-empty entries of the
\* whitelist that were not configured, each with the empty tag name; the
\* same call again changes nothing more; and no step other than _reset
\* removes a header.
C18_OnlyAdds ==
  [][/\ http_last'.op = "trace_headers" =>
          LET w == http_last'.whitelist
              before == http._header_tags
              after == http'._header_tags
              named == {str_lower(x) : x \in Entries(w)} \ {<<>>}
          IN  /\ \A k \in DOMAIN before :
                   k \in DOMAIN after /\ after[k] = before[k]
              /\ DOMAIN after = DOMAIN before \cup named
              /\ \A k \in DOMAIN after \ DOMAIN before : after[k] = <<>>
              /\ trace_headers(http', w).self = http'
     /\ (http.exists /\ http_last'.op # "_reset") =>
          DOMAIN http._header_tags \subseteq DOMAIN http'._header_tags]_vars

\* "Te" was given a tag name of the caller's at construction; the whitelist
\* that names it again, and "P", and an empty entry, has left it its tag name
C18_Witness ==
  /\ http_last.op = "trace_headers"
  /\ http_last.whitelist = WList(<< <<"t", "e">>, <<>>, <<"P">> >>)
  /\ Configured = {<<"t", "e">>, <<"p">>}
  /\ http._header_tags[<<"t", "e">>] = CustomTag
  /\ http._header_tags[<<"p">>] = DefaultTag

====
